---- MODULE Spec2Model ----
(***************************************************************************)
(* A model of linkt (src/linkt.py): the bookmark store and its JSON file,  *)
(* the content cache, the command surface and the interactive TUI loop.    *)
(*                                                                         *)
(* Python strings are sequences of one-character strings, so that          *)
(* str.lower(), the `in` substring test, startswith and slicing are        *)
(* computed, not assumed.  A JSON document is a tagged tree [t, v].         *)
(***************************************************************************)
EXTENDS Integers, Sequences, FiniteSets, TLC

VARIABLES
    bookmarks,       \* self.bookmarks: the in-memory container {"bookmarks": [...], "next_id": n}
    file,            \* the content of BOOKMARKS_FILE on disk
    cache,           \* CACHE_DIR: bookmark id -> text of <id>.txt, for the files that exist
    crashed,         \* an exception escaped BookmarkManager.__init__: no manager exists
    last,            \* the last operation called: its name, arguments, escaped exception, printed messages
    ret,             \* what the last operation returned or displayed
    assigned,        \* history: the ids handed out by add_bookmark, in order
    synced,          \* history: no save_bookmarks write failed since file and memory last agreed
    lost,            \* history: a process restarted while file and memory disagreed
    gone,            \* history: the ids remove_bookmark found and removed
    pc,              \* run_tui: where the loop is ("off", "tui", "done")
    selected_index,  \* run_tui: selected_index
    search_mode,     \* run_tui: search_mode
    search_query,    \* run_tui: search_query
    shown,           \* run_tui: the local `bookmarks`, the list handed to draw_tui
    tuistep,         \* history: the key the loop handled before this redraw, and the mode it was in
    faults,          \* history: the file operations that failed so far
    env,             \* the process's environment: the kinds of file operation that can fail in
                     \* this behaviour, and the capabilities (HAS_...) that are present
    reader           \* get_key_termios: its position, the terminal mode, and the bytes of stdin

vars == <<bookmarks, file, cache, crashed, last, ret, assigned, synced, lost, gone,
          pc, selected_index, search_mode, search_query, shown, tuistep, faults, env,
          reader>>

storeVars == <<bookmarks, file, cache, crashed, last, ret, assigned, synced, lost, gone, faults>>
tuiVars == <<pc, selected_index, search_mode, search_query, shown, tuistep>>

(***************************************************************************)
(* Bounds of the model.                                                    *)
(***************************************************************************)
MaxAdds == 2        \* add_bookmark calls in one behaviour
MaxFaults == 1      \* failing file operations in one behaviour
MaxQueryLen == 2    \* characters typed into search_query

(***************************************************************************)
(* Strings.                                                                *)
(***************************************************************************)
ToLower == ("A" :> "a") @@ ("B" :> "b") @@ ("J" :> "j") @@ ("P" :> "p") @@ ("Y" :> "y")

\* str.lower() on one character
LowerChar(c) == IF c \in DOMAIN ToLower THEN ToLower[c] ELSE c

\* str.lower()
Lower(s) == [i \in 1..Len(s) |-> LowerChar(s[i])]

\* `q in s` for two strings
Contains(s, q) == \E i \in 0..(Len(s) - Len(q)) : SubSeq(s, i + 1, i + Len(q)) = q

\* s.startswith(p)
StartsWith(s, p) == Len(s) >= Len(p) /\ SubSeq(s, 1, Len(p)) = p

RECURSIVE Join(_, _)
\* sep.join(parts)
Join(parts, sep) ==
    IF Len(parts) = 0 THEN <<>>
    ELSE IF Len(parts) = 1 THEN parts[1]
    ELSE parts[1] \o sep \o Join(Tail(parts), sep)

SPACE == <<" ">>
HTTP == <<"h", "t", "t", "p", ":", "/", "/">>
HTTPS == <<"h", "t", "t", "p", "s", ":", "/", "/">>

RECURSIVE UpTo(_, _)
\* the prefix of s before the first character of stops
UpTo(s, stops) ==
    IF Len(s) = 0 \/ s[1] \in stops THEN <<>>
    ELSE <<s[1]>> \o UpTo(Tail(s), stops)

\* urlparse(url).netloc for a url that starts with http:// or https://
Netloc(url) ==
    LET rest == IF StartsWith(url, HTTPS) THEN SubSeq(url, Len(HTTPS) + 1, Len(url))
                ELSE SubSeq(url, Len(HTTP) + 1, Len(url))
    IN UpTo(rest, {"/", "?", "#"})

(***************************************************************************)
(* JSON documents, and json.dump / json.load on the container.             *)
(***************************************************************************)
JNum(n) == [t |-> "number", v |-> n]
JStr(s) == [t |-> "string", v |-> s]
JBool(b) == [t |-> "bool", v |-> b]
JArr(items) == [t |-> "array", v |-> items]
JObj(fields) == [t |-> "object", v |-> fields]
JNull == [t |-> "null", v |-> 0]

KeyChars ==
    [bookmarks |-> <<"b", "o", "o", "k", "m", "a", "r", "k", "s">>,
     next_id |-> <<"n", "e", "x", "t", "_", "i", "d">>]

\* json.dump of one bookmark dict
DumpBookmark(b) ==
    JObj([id |-> JNum(b.id),
          url |-> JStr(b.url),
          description |-> JStr(b.description),
          tags |-> JArr([i \in 1..Len(b.tags) |-> JStr(b.tags[i])]),
          created |-> JStr(b.created),
          domain |-> JStr(b.domain),
          has_content |-> JBool(b.has_content)])

\* json.dump(self.bookmarks, f, ...)
DumpContainer(c) ==
    JObj([bookmarks |-> JArr([i \in 1..Len(c.bookmarks) |-> DumpBookmark(c.bookmarks[i])]),
          next_id |-> JNum(c.next_id)])

RECURSIVE PyOfJson(_)
\* the Python value json.load builds from a document
PyOfJson(j) ==
    CASE j.t = "object" -> [k \in DOMAIN j.v |-> PyOfJson(j.v[k])]
      [] j.t = "array" -> [i \in 1..Len(j.v) |-> PyOfJson(j.v[i])]
      [] j.t = "null" -> "None"
      [] OTHER -> j.v

MISSING == [kind |-> "missing"]
INVALID_JSON == [kind |-> "invalid_json"]
INVALID_UTF8 == [kind |-> "invalid_utf8"]
JsonFile(j) == [kind |-> "json", doc |-> j]

EmptyContainer == [bookmarks |-> <<>>, next_id |-> 1]

\* `key in data` of load_bookmarks: "TypeError" where Python raises it
KeyIn(key, j) ==
    CASE j.t = "object" -> IF key \in DOMAIN j.v THEN "yes" ELSE "no"
      [] j.t = "array" -> IF \E i \in 1..Len(j.v) : j.v[i] = JStr(KeyChars[key]) THEN "yes" ELSE "no"
      [] j.t = "string" -> IF Contains(j.v, KeyChars[key]) THEN "yes" ELSE "no"
      [] OTHER -> "TypeError"

\* `data[key] = value` of load_bookmarks: only a dict takes a string key
SetKey(j, key, value) ==
    IF j.t = "object"
    THEN [exc |-> "none", doc |-> JObj([k \in DOMAIN j.v \cup {key} |-> IF k = key THEN value ELSE j.v[k]])]
    ELSE [exc |-> "TypeError", doc |-> j]

\* a fault of EnsureKey: the default is stored whether or not the key is there
EnsureKeyAlways(r, key, value) ==
    IF r.exc # "none" THEN r ELSE SetKey(r.doc, key, value)

\* the two "Ensure structure" statements of load_bookmarks, in order
EnsureKey(r, key, value) ==
    IF r.exc # "none" THEN r
    ELSE LET has == KeyIn(key, r.doc)
         IN CASE has = "TypeError" -> [exc |-> "TypeError", doc |-> r.doc]
              [] has = "no" -> SetKey(r.doc, key, value)
              [] OTHER -> r

Loaded(exc, warned, doc) == [exc |-> exc, warned |-> warned, doc |-> doc]

\* BookmarkManager.load_bookmarks: the exception that escapes it, whether it warned,
\* and the document it returned
load_bookmarks(f, readOk) ==
    IF f.kind = "missing" THEN Loaded("none", FALSE, DumpContainer(EmptyContainer))
    ELSE IF ~readOk THEN Loaded("OSError", FALSE, JNull)
    ELSE IF f.kind \in {"invalid_json", "invalid_utf8"}
         THEN Loaded("none", TRUE, DumpContainer(EmptyContainer))
    ELSE LET r1 == EnsureKey([exc |-> "none", doc |-> f.doc], "bookmarks", JArr(<<>>))
             r2 == EnsureKey(r1, "next_id", JNum(1))
         IN IF r2.exc # "none" THEN Loaded(r2.exc, FALSE, JNull)
            ELSE Loaded("none", FALSE, r2.doc)

\* BookmarkManager.save_bookmarks: the file afterwards.  open() fails before the file is
\* touched; a failing write leaves a truncated file behind
save_bookmarks(c, f, outcome) ==
    CASE outcome = "ok" -> JsonFile(DumpContainer(c))
      [] outcome = "open_failed" -> f
      [] OTHER -> INVALID_JSON

(***************************************************************************)
(* The store and the cache.  An operation is a function of the "world"     *)
(* [bookmarks, file, cache] and of its inputs, the outcomes of its file    *)
(* operations among them; it returns the world afterwards with the         *)
(* messages it printed.                                                    *)
(***************************************************************************)
World(c, f, ch, out) == [bookmarks |-> c, file |-> f, cache |-> ch, out |-> out]

FileOutcomes == {"ok", "open_failed", "write_failed"}

\* lines 348-349 of add_bookmark
NormalizeUrl(url) ==
    IF StartsWith(url, HTTP) \/ StartsWith(url, HTTPS) THEN url ELSE HTTPS \o url

\* a fault of GenerateId: the id is taken from the length of the list
GenerateIdFromLength(c) == Len(c.bookmarks) + 1

\* sequences of at most n members of S
SeqsUpTo(S, n) == UNION {[1..k -> S] : k \in 0..n}

\* the id add_bookmark gives the new bookmark
GenerateId(c) == c.next_id

\* BookmarkManager.find_bookmark: <<>> for None, <<b>> for the first bookmark with the id
find_bookmark(c, bookmark_id) ==
    LET hits == {i \in 1..Len(c.bookmarks) : c.bookmarks[i].id = bookmark_id}
    IN IF hits = {} THEN <<>>
       ELSE <<c.bookmarks[CHOOSE i \in hits : \A j \in hits : i <= j]>>

\* cache_path.exists()
CacheExists(ch, bookmark_id) == bookmark_id \in DOMAIN ch

\* open(cache_path, 'w') and f.write(content): a write that fails after the open leaves
\* the first `kept` characters in the file
WriteCache(ch, bookmark_id, content, outcome, kept) ==
    LET put(text) == [i \in DOMAIN ch \cup {bookmark_id} |-> IF i = bookmark_id THEN text ELSE ch[i]]
    IN CASE outcome = "ok" -> put(content)
         [] outcome = "open_failed" -> ch
         [] OTHER -> put(SubSeq(content, 1, kept))

\* a fault of Unlink: the file is never deleted
UnlinkNothing(ch, bookmark_id, unlinkOk) == ch

\* cache_path.unlink()
Unlink(ch, bookmark_id, unlinkOk) ==
    IF unlinkOk THEN [i \in DOMAIN ch \ {bookmark_id} |-> ch[i]] ELSE ch

SaveMessages(outcome) == IF outcome = "ok" THEN <<>> ELSE <<"save_error">>

\* the messages add_bookmark prints after it saved
AddedMessages(bookmark_id, description, tags) ==
    <<"added">> \o (IF description # <<>> THEN <<"description">> ELSE <<>>)
                \o (IF tags # <<>> THEN <<"tags">> ELSE <<>>)

\* BookmarkManager.add_bookmark; content is what fetch_page_text returned
add_bookmark(w, url, description, tags, now, content, cacheOutcome, kept, saveOutcome) ==
    LET url2 == NormalizeUrl(url)
        bookmark_id == GenerateId(w.bookmarks)
        next_id2 == w.bookmarks.next_id + 1
        written == content # <<>> /\ cacheOutcome = "ok"
        cache2 == IF content # <<>>
                  THEN WriteCache(w.cache, bookmark_id, content, cacheOutcome, kept)
                  ELSE w.cache
        bookmark == [id |-> bookmark_id,
                     url |-> url2,
                     description |-> description,
                     tags |-> tags,
                     created |-> now,
                     domain |-> Netloc(url2),
                     has_content |-> written]
        c2 == [bookmarks |-> Append(w.bookmarks.bookmarks, bookmark), next_id |-> next_id2]
    IN World(c2, save_bookmarks(c2, w.file, saveOutcome), cache2,
             (IF written THEN <<"rendered">> ELSE <<>>) \o SaveMessages(saveOutcome)
                 \o AddedMessages(bookmark_id, description, tags))

\* a fault of remove_bookmark: the cache file is left behind
remove_bookmark_no_cascade(w, bookmark_id, unlinkOk, saveOutcome) ==
    IF find_bookmark(w.bookmarks, bookmark_id) = <<>>
    THEN World(w.bookmarks, w.file, w.cache, <<"not_found">>)
    ELSE LET c2 == [w.bookmarks EXCEPT
                       !.bookmarks = SelectSeq(@, LAMBDA b : b.id # bookmark_id)]
         IN World(c2, save_bookmarks(c2, w.file, saveOutcome), w.cache,
                  SaveMessages(saveOutcome) \o <<"removed">>)

\* BookmarkManager.remove_bookmark
remove_bookmark(w, bookmark_id, unlinkOk, saveOutcome) ==
    IF find_bookmark(w.bookmarks, bookmark_id) = <<>>
    THEN World(w.bookmarks, w.file, w.cache, <<"not_found">>)
    ELSE LET c2 == [w.bookmarks EXCEPT
                       !.bookmarks = SelectSeq(@, LAMBDA b : b.id # bookmark_id)]
             cache2 == IF CacheExists(w.cache, bookmark_id)
                       THEN Unlink(w.cache, bookmark_id, unlinkOk)
                       ELSE w.cache
         IN World(c2, save_bookmarks(c2, w.file, saveOutcome), cache2,
                  SaveMessages(saveOutcome) \o <<"removed">>)

\* lines 1044-1047 of refresh_bookmark_content: the first bookmark with the id gets has_content
MarkHasContent(c, bookmark_id) ==
    LET hits == {i \in 1..Len(c.bookmarks) : c.bookmarks[i].id = bookmark_id}
        first == CHOOSE i \in hits : \A j \in hits : i <= j
    IN IF hits = {} THEN c ELSE [c EXCEPT !.bookmarks[first].has_content = TRUE]

\* a fault of refresh_bookmark_content: has_content is set and never saved
refresh_bookmark_content_unsaved(w, bookmark_id, content, cacheOutcome, kept, saveOutcome) ==
    IF find_bookmark(w.bookmarks, bookmark_id) = <<>>
    THEN World(w.bookmarks, w.file, w.cache, <<>>)
    ELSE IF cacheOutcome # "ok"
    THEN World(w.bookmarks, w.file,
               WriteCache(w.cache, bookmark_id, content, cacheOutcome, kept),
               <<"refreshing", "refresh_save_failed">>)
    ELSE World(MarkHasContent(w.bookmarks, bookmark_id), w.file,
               WriteCache(w.cache, bookmark_id, content, "ok", kept),
               <<"refreshing", "refreshed">>)

\* BookmarkManager.refresh_bookmark_content
refresh_bookmark_content(w, bookmark_id, content, cacheOutcome, kept, saveOutcome) ==
    IF find_bookmark(w.bookmarks, bookmark_id) = <<>>
    THEN World(w.bookmarks, w.file, w.cache, <<>>)
    ELSE IF content = <<>>
    THEN World(w.bookmarks, w.file, w.cache, <<"refreshing", "refresh_failed">>)
    ELSE IF cacheOutcome # "ok"
    THEN World(w.bookmarks, w.file,
               WriteCache(w.cache, bookmark_id, content, cacheOutcome, kept),
               <<"refreshing", "refresh_save_failed">>)
    ELSE LET c2 == MarkHasContent(w.bookmarks, bookmark_id)
         IN World(c2, save_bookmarks(c2, w.file, saveOutcome),
                  WriteCache(w.cache, bookmark_id, content, "ok", kept),
                  <<"refreshing">> \o SaveMessages(saveOutcome) \o <<"refreshed">>)

\* BookmarkManager.show_bookmark_content: what it prints
show_bookmark_content(w, bookmark_id, readOk) ==
    IF find_bookmark(w.bookmarks, bookmark_id) = <<>> THEN <<"not_found">>
    ELSE IF ~CacheExists(w.cache, bookmark_id) THEN <<"no_cached_content">>
    ELSE IF readOk THEN <<"content">>
    ELSE <<"read_error">>

\* the text search_bookmarks and get_filtered_bookmarks match the query against
Searchable(b) == b.url \o SPACE \o b.description \o SPACE \o Join(b.tags, SPACE)

\* one turn of the loop of search_bookmarks: the match it appends for this bookmark, if any;
\* unreadable holds the ids whose cache file cannot be read
SearchOne(b, ch, query_lower, unreadable) ==
    IF Contains(Lower(Searchable(b)), query_lower)
    THEN <<[bookmark |-> b, kind |-> "metadata"]>>
    ELSE IF CacheExists(ch, b.id) /\ b.id \notin unreadable
            /\ Contains(Lower(ch[b.id]), query_lower)
    THEN <<[bookmark |-> b, kind |-> "content"]>>
    ELSE <<>>

RECURSIVE SearchLoop(_, _, _, _)
SearchLoop(bs, ch, query_lower, unreadable) ==
    IF bs = <<>> THEN <<>>
    ELSE SearchOne(Head(bs), ch, query_lower, unreadable)
             \o SearchLoop(Tail(bs), ch, query_lower, unreadable)

\* a fault of search_bookmarks: the query is not lower-cased
search_bookmarks_raw_query(w, query, unreadable) ==
    SearchLoop(w.bookmarks.bookmarks, w.cache, query, unreadable)

\* BookmarkManager.search_bookmarks: the matches it prints, in order
search_bookmarks(w, query, unreadable) ==
    SearchLoop(w.bookmarks.bookmarks, w.cache, Lower(query), unreadable)

\* a fault of get_filtered_bookmarks: the cached content is not searched
get_filtered_bookmarks_by_metadata(w, query, unreadable) ==
    IF query = <<>> THEN w.bookmarks.bookmarks
    ELSE SelectSeq(w.bookmarks.bookmarks,
                   LAMBDA b : Contains(Lower(Searchable(b)), Lower(query)))

\* BookmarkManager.get_filtered_bookmarks
get_filtered_bookmarks(w, query, unreadable) ==
    IF query = <<>> THEN w.bookmarks.bookmarks
    ELSE LET matches == SearchLoop(w.bookmarks.bookmarks, w.cache, Lower(query), unreadable)
         IN [i \in 1..Len(matches) |-> matches[i].bookmark]

\* a fault of HasTag: the filter is looked for inside the tags
HasTagSubstring(b, tag_filter) ==
    \E i \in 1..Len(b.tags) : Contains(Lower(b.tags[i]), Lower(tag_filter))

\* line 404 of list_bookmarks: the bookmark passes the tag filter
HasTag(b, tag_filter) ==
    \E i \in 1..Len(b.tags) : Lower(b.tags[i]) = Lower(tag_filter)

\* BookmarkManager.list_bookmarks: the bookmarks it shows and the messages it prints
list_bookmarks(w, tag_filter) ==
    LET all == w.bookmarks.bookmarks
        listed == IF tag_filter # <<>> THEN SelectSeq(all, LAMBDA b : HasTag(b, tag_filter)) ELSE all
    IN [listed |-> listed,
        out |-> IF listed = <<>>
                THEN (IF tag_filter # <<>> THEN <<"no_bookmarks_with_tag">> ELSE <<"no_bookmarks_yet">>)
                ELSE <<"count">> \o (IF tag_filter # <<>> THEN <<"filtered_by_tag">> ELSE <<>>)]

(***************************************************************************)
(* Inputs of the model.                                                    *)
(***************************************************************************)
URL_AB == <<"a", ".", "b">>
URL_J == HTTP \o <<"J">>
TAG_PY == <<"P", "y">>

\* what a user passes to add: url, description, tags
AddInputs ==
    {[url |-> URL_AB, description |-> <<>>, tags |-> <<>>],
     [url |-> URL_J, description |-> <<"a">>, tags |-> <<TAG_PY, <<"b">> >>]}

\* what fetch_page_text returns for a url: every path of it returns a non-empty text
FetchedTexts(url) == IF NormalizeUrl(url) = HTTPS \o URL_AB THEN {<<"j">>} ELSE {<<"P", "y">>}

\* datetime.now().isoformat()
Times == {<<"2", "0", "2", "6">>}

Ids == 1..MaxAdds

Queries == {<<>>, <<"j">>, <<"J">>, <<"p", "y">>, <<"a", " ", "p">>, <<"x">>}

TagFilters == {<<"p", "y">>, <<"P", "Y">>, <<"p">>, <<"b">>}

\* the outcomes a file operation of this kind can have after n failures
Outcomes(kind, n) == IF kind \in env /\ n < MaxFaults THEN FileOutcomes ELSE {"ok"}
Oks(kind, n) == IF kind \in env /\ n < MaxFaults THEN BOOLEAN ELSE {TRUE}
Failed(outcome) == IF outcome = "ok" THEN 0 ELSE 1

(***************************************************************************)
(* The command surface: one action per BookmarkManager operation.  Do...   *)
(* is the operation on the store; the TUI's keys run the same operations.  *)
(***************************************************************************)
Called(op, id, text, exc, out, io) ==
    [op |-> op, id |-> id, text |-> text, exc |-> exc, out |-> out, io |-> io]
NoReturn == [t |-> "none", v |-> <<>>]

TheWorld == World(bookmarks, file, cache, <<>>)

\* no call of get_key_termios is under way, the terminal is as the shell left it, and
\* stdin holds the bytes typed
ReaderIdle(bytes, eof) ==
    [pc |-> "idle", term |-> "cooked", old |-> "cooked", key |-> <<>>, input |-> bytes,
     eof |-> eof, start |-> bytes, returned |-> <<"none">>, exc |-> "none"]

TuiOff ==
    /\ pc = "off"
    /\ UNCHANGED tuiVars
    /\ UNCHANGED <<env, reader>>

\* synced after an operation that called save_bookmarks with this outcome
SyncedAfter(outcome) == outcome = "ok"

InitStore ==
    /\ bookmarks = EmptyContainer
    /\ file = MISSING
    /\ cache = <<>>
    /\ crashed = FALSE
    /\ last = Called("init", 0, <<>>, "none", <<>>, {})
    /\ ret = NoReturn
    /\ assigned = <<>>
    /\ synced = TRUE
    /\ lost = FALSE
    /\ gone = {}
    /\ faults = 0

\* no key was read yet
NoStep == [key |-> <<"none">>, mode |-> FALSE, query |-> <<>>, answer |-> <<"none">>]

InitTuiOff ==
    /\ pc = "off"
    /\ selected_index = 0
    /\ search_mode = FALSE
    /\ search_query = <<>>
    /\ shown = <<>>
    /\ tuistep = NoStep

AllFaults == {"save", "cache", "unlink", "load", "read"}

Init == InitStore /\ InitTuiOff /\ env = AllFaults /\ reader = ReaderIdle(<<>>, FALSE)

\* add_bookmark(url, description, tags) with the outcomes of its fetch and file operations
DoAdd(url, description, tags) ==
    /\ Len(assigned) < MaxAdds
    /\ \E now \in Times, content \in FetchedTexts(url), cacheOutcome \in Outcomes("cache", faults) :
         \E kept \in 0..(IF cacheOutcome = "write_failed" THEN Len(content) - 1 ELSE 0),
            saveOutcome \in Outcomes("save", faults + Failed(cacheOutcome)) :
           LET w == add_bookmark(TheWorld, url, description, tags, now, content,
                                 cacheOutcome, kept, saveOutcome)
           IN /\ bookmarks' = w.bookmarks
              /\ file' = w.file
              /\ cache' = w.cache
              /\ last' = Called("add", GenerateId(bookmarks), <<>>, "none", w.out,
                                {cacheOutcome, saveOutcome} \ {"ok"})
              /\ assigned' = Append(assigned, GenerateId(bookmarks))
              /\ synced' = SyncedAfter(saveOutcome)
              /\ faults' = faults + Failed(cacheOutcome) + Failed(saveOutcome)
    /\ ret' = NoReturn
    /\ UNCHANGED <<crashed, lost, gone>>

\* remove_bookmark(bookmark_id) with the outcomes of its file operations
DoRemove(bookmark_id) ==
    /\ \E unlinkOk \in Oks("unlink", faults) :
         \E saveOutcome \in Outcomes("save", faults + (IF unlinkOk THEN 0 ELSE 1)) :
           LET found == find_bookmark(bookmarks, bookmark_id) # <<>>
               unlinked == found /\ CacheExists(cache, bookmark_id)
               w == remove_bookmark(TheWorld, bookmark_id, unlinkOk, saveOutcome)
           IN /\ (~unlinked => unlinkOk)
              /\ (~found => saveOutcome = "ok")
              /\ bookmarks' = w.bookmarks
              /\ file' = w.file
              /\ cache' = w.cache
              /\ last' = Called("remove", bookmark_id, <<>>, "none", w.out,
                                ({saveOutcome} \ {"ok"}) \cup (IF unlinkOk THEN {} ELSE {"unlink_failed"}))
              /\ synced' = IF found THEN SyncedAfter(saveOutcome) ELSE synced
              /\ gone' = IF found THEN gone \cup {bookmark_id} ELSE gone
              /\ faults' = faults + (IF unlinkOk THEN 0 ELSE 1) + Failed(saveOutcome)
    /\ ret' = NoReturn
    /\ UNCHANGED <<crashed, assigned, lost>>

\* what the fetch of refresh_bookmark_content returns (it fetches nothing for an unknown id)
RefreshedTexts(bookmark_id) ==
    LET found == find_bookmark(bookmarks, bookmark_id)
    IN IF found = <<>> THEN {<<"-">>} ELSE FetchedTexts(found[1].url)

\* refresh_bookmark_content(bookmark_id) with the outcomes of its fetch and file operations
DoRefresh(bookmark_id) ==
    /\ \E content \in RefreshedTexts(bookmark_id), cacheOutcome \in Outcomes("cache", faults) :
         \E kept \in 0..(IF cacheOutcome = "write_failed" THEN Len(content) - 1 ELSE 0),
            saveOutcome \in Outcomes("save", faults + Failed(cacheOutcome)) :
           LET found == find_bookmark(bookmarks, bookmark_id) # <<>>
               saved == found /\ cacheOutcome = "ok"
               w == refresh_bookmark_content(TheWorld, bookmark_id, content,
                                             cacheOutcome, kept, saveOutcome)
           IN /\ (~found => cacheOutcome = "ok")
              /\ (~saved => saveOutcome = "ok")
              /\ bookmarks' = w.bookmarks
              /\ file' = w.file
              /\ cache' = w.cache
              /\ last' = Called("refresh", bookmark_id, <<>>, "none", w.out,
                                {cacheOutcome, saveOutcome} \ {"ok"})
              /\ synced' = IF saved THEN SyncedAfter(saveOutcome) ELSE synced
              /\ faults' = faults + Failed(cacheOutcome) + Failed(saveOutcome)
    /\ ret' = NoReturn
    /\ UNCHANGED <<crashed, assigned, lost, gone>>

\* linkt add <url> [description] [--tags ...]
Add ==
    /\ ~crashed
    /\ \E in \in AddInputs : DoAdd(in.url, in.description, in.tags)
    /\ TuiOff

\* linkt remove <id>
Remove ==
    /\ ~crashed
    /\ \E bookmark_id \in Ids : DoRemove(bookmark_id)
    /\ TuiOff

\* refresh_bookmark_content(id) called on a manager
Refresh ==
    /\ ~crashed
    /\ \E bookmark_id \in Ids : DoRefresh(bookmark_id)
    /\ TuiOff

\* a new process: BookmarkManager.__init__ loads the file
Restart ==
    /\ \E readOk \in Oks("load", faults) :
         LET r == load_bookmarks(file, readOk)
         IN /\ (file.kind = "missing" => readOk)
            /\ crashed' = (r.exc # "none")
            /\ bookmarks' = IF r.exc = "none" THEN PyOfJson(r.doc) ELSE EmptyContainer
            /\ last' = Called("restart", 0, <<>>, r.exc,
                              IF r.warned THEN <<"corrupt_warning">> ELSE <<>>,
                              IF readOk THEN {} ELSE {"read_failed"})
            /\ faults' = faults + (IF readOk THEN 0 ELSE 1)
            /\ ret' = [t |-> "loaded", v |-> r.doc]
    /\ lost' = (lost \/ ~synced)
    /\ synced' = TRUE
    /\ UNCHANGED <<file, cache, assigned, gone>>
    /\ TuiOff

\* linkt show <id>
Show ==
    /\ ~crashed
    /\ \E bookmark_id \in Ids :
         last' = Called("show", bookmark_id, <<>>, "none",
                        show_bookmark_content(TheWorld, bookmark_id, TRUE), {})
    /\ ret' = NoReturn
    /\ UNCHANGED <<bookmarks, file, cache, crashed, assigned, synced, lost, gone, faults>>
    /\ TuiOff

\* the sets of cache files a command may find unreadable
Unreadables ==
    {{}} \cup (IF "read" \in env /\ faults < MaxFaults THEN {{i} : i \in DOMAIN cache} ELSE {})

\* linkt search <query>
Search ==
    /\ ~crashed
    /\ \E query \in Queries, unreadable \in Unreadables :
         LET matches == search_bookmarks(TheWorld, query, unreadable)
         IN /\ last' = Called("search", 0, query, "none",
                              IF matches = <<>> THEN <<"no_match">> ELSE <<"found">>, unreadable)
            /\ ret' = [t |-> "matches", v |-> matches]
            /\ faults' = faults + Cardinality(unreadable)
    /\ UNCHANGED <<bookmarks, file, cache, crashed, assigned, synced, lost, gone>>
    /\ TuiOff

\* linkt list --tag <tag>
List ==
    /\ ~crashed
    /\ \E tag_filter \in TagFilters \cup {<<>>} :
         LET r == list_bookmarks(TheWorld, tag_filter)
         IN /\ last' = Called("list", 0, tag_filter, "none", r.out, {})
            /\ ret' = [t |-> "listed", v |-> r.listed]
    /\ UNCHANGED <<bookmarks, file, cache, crashed, assigned, synced, lost, gone, faults>>
    /\ TuiOff

\* The store under every failure of its file operations
Next == Add \/ Remove \/ Refresh \/ Restart

Spec == Init /\ [][Next]_vars

\* The read-only commands over the stores that add, remove and refresh build; the
\* bookmarks file, which they do not read, is written without failures, and so are the
\* cache files unlinked
InitQuery ==
    InitStore /\ InitTuiOff /\ env = {"cache", "read"} /\ reader = ReaderIdle(<<>>, FALSE)

NextQuery == Add \/ Remove \/ Refresh \/ Search \/ List \/ Show

SpecQuery == InitQuery /\ [][NextQuery]_vars

(***************************************************************************)
(* The TUI: run_tui.  A state with pc = "tui" is the loop waiting for a    *)
(* key after draw_tui; one action is one turn of the loop: the key is      *)
(* read and handled, the list is filtered again, the selection clamped and *)
(* the screen redrawn.  A key is the string the key reader returned.       *)
(***************************************************************************)
ESC == <<"\\x1b">>
CR == <<"\\r">>
DEL == <<"\\x7f">>
BS == <<"\\x08">>
ETX == <<"\\x03">>
UP == <<"U", "P">>
DOWN == <<"D", "O", "W", "N">>
EOF_KEY == <<>>

ControlChars == {ESC[1], CR[1], DEL[1], BS[1], ETX[1]}

\* a fault of IsPrintable: no key counts as printable
NeverPrintable(text) == FALSE

\* str.isprintable
IsPrintable(text) == \A i \in 1..Len(text) : text[i] \notin ControlChars

\* the keys of normal mode that move the selection, and those that change nothing
NavigationKeys == {<<"j">>, DOWN, <<"k">>, UP, <<"g">>, <<"G">>}
OtherKeys == {CR, <<"c">>, <<"?">>, EOF_KEY}

\* the keys pressed in search mode
SearchKeys == {ESC, CR, DEL, BS, ETX, EOF_KEY, UP, <<"y">>}

\* the keys that answer the question of delete_bookmark_tui
ConfirmKeys == {<<"y">>, <<"Y">>, <<"n">>, CR}

\* a fault of MaxOf2: the second argument whatever the first
MaxOf2Second(a, b) == b

MaxOf2(a, b) == IF a >= b THEN a ELSE b
MinOf2(a, b) == IF a <= b THEN a ELSE b

\* bookmarks[selected_index] of Python: a negative index counts from the end
PyItem(list, index) == IF index >= 0 THEN list[index + 1] ELSE list[Len(list) + index + 1]
PyInRange(list, index) == -Len(list) <= index /\ index < Len(list)

Step(key) == [key |-> key, mode |-> search_mode, query |-> search_query, answer |-> <<"none">>]

\* d, and the key read by delete_bookmark_tui
Answered(key) == [Step(<<"d">>) EXCEPT !.answer = key]

\* a fault of Redraw: a selection reset by a search key is put back
RedrawKeepingSelection(sel, mode, query) ==
    LET list == get_filtered_bookmarks(World(bookmarks', file', cache', <<>>),
                                       IF mode THEN query ELSE <<>>, {})
        kept == IF search_mode THEN selected_index ELSE sel
    IN /\ shown' = list
       /\ selected_index' = IF kept >= Len(list) THEN MaxOf2(0, Len(list) - 1) ELSE kept
       /\ search_mode' = mode
       /\ search_query' = query
       /\ pc' = "tui"

\* lines 604-610: the top of the loop, run on the store as the handler left it
Redraw(sel, mode, query) ==
    LET list == get_filtered_bookmarks(World(bookmarks', file', cache', <<>>),
                                       IF mode THEN query ELSE <<>>, {})
    IN /\ shown' = list
       /\ selected_index' = IF sel >= Len(list) THEN MaxOf2(0, Len(list) - 1) ELSE sel
       /\ search_mode' = mode
       /\ search_query' = query
       /\ pc' = "tui"

\* the loop ends: break, or an exception that leaves run_tui
Leave(exc) ==
    /\ pc' = "done"
    /\ crashed' = (exc # "none")
    /\ UNCHANGED <<bookmarks, file, cache, last, ret, assigned, synced, lost, gone, faults>>
    /\ UNCHANGED <<selected_index, search_mode, search_query, shown>>

\* the normal-mode command characters
CommandChars ==
    {<<"a">>, <<"d">>, <<"r">>, <<"c">>, <<"q">>, <<"j">>, <<"k">>, <<"g">>, <<"G">>, <<"/">>,
     <<"?">>}

\* lines 619-636: the search-mode branch for one key
SearchKey(key) ==
    /\ tuistep' = Step(key)
    /\ UNCHANGED storeVars
    /\ CASE key = ESC -> Redraw(0, FALSE, <<>>)
         [] key = CR -> Redraw(0, FALSE, search_query)
         [] key \in {DEL, BS} ->
               IF search_query # <<>>
               THEN Redraw(0, TRUE, SubSeq(search_query, 1, Len(search_query) - 1))
               ELSE Redraw(0, FALSE, search_query)
         [] IsPrintable(key) /\ key \notin {ESC, CR, DEL, BS} ->
               /\ Len(search_query) + Len(key) <= MaxQueryLen
               /\ Redraw(0, TRUE, search_query \o key)
         [] OTHER -> Redraw(selected_index, search_mode, search_query)

\* a key in search mode
KeySearch ==
    /\ pc = "tui"
    /\ search_mode
    /\ \E key \in SearchKeys : SearchKey(key)
    /\ UNCHANGED <<env, reader>>

\* a command character of normal mode, pressed in search mode
KeyCommandInSearch ==
    /\ pc = "tui"
    /\ search_mode
    /\ \E key \in CommandChars : SearchKey(key)
    /\ UNCHANGED <<env, reader>>

\* lines 639-646: a navigation key in normal mode
KeyNavigate ==
    /\ pc = "tui"
    /\ ~search_mode
    /\ \E key \in NavigationKeys :
         /\ tuistep' = Step(key)
         /\ UNCHANGED storeVars
         /\ CASE key \in {<<"j">>, DOWN} ->
                    Redraw(MinOf2(Len(shown) - 1, selected_index + 1), FALSE, search_query)
              [] key \in {<<"k">>, UP} ->
                    Redraw(MaxOf2(0, selected_index - 1), FALSE, search_query)
              [] key = <<"g">> -> Redraw(0, FALSE, search_query)
              [] OTHER -> Redraw(MaxOf2(0, Len(shown) - 1), FALSE, search_query)
    /\ UNCHANGED <<env, reader>>

\* lines 649-653 and 664-665, and the keys no branch handles: Enter shows the content,
\* c copies the url, ? shows the help; the store and the loop's variables stay
KeyOther ==
    /\ pc = "tui"
    /\ ~search_mode
    /\ \E key \in OtherKeys :
         /\ tuistep' = Step(key)
         /\ IF key \in {CR, <<"c">>} /\ shown # <<>> /\ ~PyInRange(shown, selected_index)
            THEN Leave("IndexError")
            ELSE /\ UNCHANGED storeVars
                 /\ Redraw(selected_index, FALSE, search_query)
    /\ UNCHANGED <<env, reader>>

\* lines 654-655 and delete_bookmark_tui: d, then the key that answers the question
KeyDelete ==
    /\ pc = "tui"
    /\ ~search_mode
    /\ IF shown = <<>>
       THEN /\ tuistep' = Step(<<"d">>)
            /\ UNCHANGED storeVars
            /\ Redraw(selected_index, FALSE, search_query)
       ELSE IF ~PyInRange(shown, selected_index)
       THEN /\ tuistep' = Step(<<"d">>)
            /\ Leave("IndexError")
       ELSE \E key \in ConfirmKeys :
              /\ tuistep' = Answered(key)
              /\ IF Lower(key) = <<"y">>
                 THEN DoRemove(PyItem(shown, selected_index).id)
                 ELSE UNCHANGED storeVars
              /\ Redraw(selected_index, FALSE, search_query)
    /\ UNCHANGED <<env, reader>>

\* lines 656-657 and add_bookmark_tui: a, then the url, description and tags; an empty
\* url or Ctrl-C at a prompt adds nothing
KeyAdd ==
    /\ pc = "tui"
    /\ ~search_mode
    /\ tuistep' = Step(<<"a">>)
    /\ \/ \E in \in AddInputs : DoAdd(in.url, in.description, in.tags)
       \/ UNCHANGED storeVars
    /\ Redraw(selected_index, FALSE, search_query)
    /\ UNCHANGED <<env, reader>>

\* lines 658-660
KeySlash ==
    /\ pc = "tui"
    /\ ~search_mode
    /\ tuistep' = Step(<<"/">>)
    /\ UNCHANGED storeVars
    /\ Redraw(selected_index, TRUE, <<>>)
    /\ UNCHANGED <<env, reader>>

\* lines 661-663
KeyRefresh ==
    /\ pc = "tui"
    /\ ~search_mode
    /\ tuistep' = Step(<<"r">>)
    /\ IF shown = <<>>
       THEN /\ UNCHANGED storeVars
            /\ Redraw(selected_index, FALSE, search_query)
       ELSE IF ~PyInRange(shown, selected_index)
       THEN Leave("IndexError")
       ELSE /\ DoRefresh(PyItem(shown, selected_index).id)
            /\ Redraw(selected_index, FALSE, search_query)
    /\ UNCHANGED <<env, reader>>

\* lines 666-667
KeyQuit ==
    /\ pc = "tui"
    /\ ~search_mode
    /\ \E key \in {<<"q">>, ETX} :
         /\ tuistep' = Step(key)
         /\ Leave("none")
    /\ UNCHANGED <<env, reader>>

\* lines 669-670: KeyboardInterrupt raised while the loop waits for a key
Interrupt ==
    /\ pc = "tui"
    /\ tuistep' = Step(<<"KeyboardInterrupt">>)
    /\ Leave("none")
    /\ UNCHANGED <<env, reader>>

\* lines 596-610: run_tui up to its first draw_tui, on a new store
InitTui ==
    /\ InitStore
    /\ pc = "tui"
    /\ selected_index = 0
    /\ search_mode = FALSE
    /\ search_query = <<>>
    /\ shown = <<>>
    /\ tuistep = NoStep
    /\ env = {}
    /\ reader = ReaderIdle(<<>>, FALSE)

NextTui ==
    \/ KeySearch \/ KeyNavigate \/ KeyOther \/ KeyDelete \/ KeyAdd
    \/ KeySlash \/ KeyRefresh \/ KeyQuit \/ Interrupt

SpecTui == InitTui /\ [][NextTui]_vars

(***************************************************************************)
(* The key reader: get_key_termios, one action per statement that touches  *)
(* the terminal or stdin.  stdin holds the bytes typed so far; a read of n *)
(* characters blocks until n are there, or returns what is left at the end *)
(* of input.                                                               *)
(***************************************************************************)
MaxBytes == 4

Bytes == {ESC[1], "[", "A", "B", "j"}

RIGHT == <<"R", "I", "G", "H", "T">>
LEFT == <<"L", "E", "F", "T">>

\* lines 712-723: what get_key_termios returns once the escape byte and the two
\* characters after it are in key
DecodeEscape(key) ==
    CASE key = ESC \o <<"[", "A">> -> UP
      [] key = ESC \o <<"[", "B">> -> DOWN
      [] key = ESC \o <<"[", "C">> -> RIGHT
      [] key = ESC \o <<"[", "D">> -> LEFT
      [] OTHER -> ESC

\* sys.stdin.read(n): the characters read, none if the read has to block
CanRead(n) == Len(reader.input) >= n \/ reader.eof
ReadChars(n) == SubSeq(reader.input, 1, MinOf2(n, Len(reader.input)))
AfterRead(n) == SubSeq(reader.input, MinOf2(n, Len(reader.input)) + 1, Len(reader.input))

ReaderOnly == UNCHANGED <<storeVars, tuiVars, env>>

\* lines 705-706: fd = sys.stdin.fileno(); old_settings = termios.tcgetattr(fd)
KeyCall ==
    /\ reader.pc = "idle"
    /\ reader' = [reader EXCEPT !.pc = "setraw", !.old = reader.term, !.key = <<>>,
                                !.start = reader.input, !.returned = <<"none">>,
                                !.exc = "none"]
    /\ ReaderOnly

\* line 708: tty.setraw(sys.stdin.fileno())
KeySetRaw ==
    /\ reader.pc = "setraw"
    /\ reader' = [reader EXCEPT !.pc = "read1", !.term = "raw"]
    /\ ReaderOnly

\* lines 709-712 and 725: key = sys.stdin.read(1); an escape byte goes on to read(2), any
\* other key is returned
KeyRead1 ==
    /\ reader.pc = "read1"
    /\ CanRead(1)
    /\ reader' = [reader EXCEPT !.key = ReadChars(1), !.input = AfterRead(1),
                                !.pc = IF ReadChars(1) = ESC THEN "read2" ELSE "finally",
                                !.returned = ReadChars(1)]
    /\ ReaderOnly

\* lines 713-723: key += sys.stdin.read(2), and the key it decodes to
KeyRead2 ==
    /\ reader.pc = "read2"
    /\ CanRead(2)
    /\ reader' = [reader EXCEPT !.key = reader.key \o ReadChars(2), !.input = AfterRead(2),
                                !.pc = "finally",
                                !.returned = DecodeEscape(reader.key \o ReadChars(2))]
    /\ ReaderOnly

\* an exception raised inside the try block while a read waits: KeyboardInterrupt
KeyInterrupted ==
    /\ reader.pc \in {"read1", "read2"}
    /\ reader' = [reader EXCEPT !.pc = "finally", !.exc = "KeyboardInterrupt",
                                !.returned = <<"none">>]
    /\ ReaderOnly

\* a fault of RestoreOnExit: the settings are put back on the return path only
RestoreOnReturn(r) ==
    [r EXCEPT !.pc = "idle", !.term = IF r.exc = "none" THEN r.old ELSE r.term]

\* lines 726-727: finally: termios.tcsetattr(fd, termios.TCSADRAIN, old_settings), and the
\* function returns or the exception goes on to the caller
RestoreOnExit(r) == [r EXCEPT !.pc = "idle", !.term = r.old]

KeyRestore ==
    /\ reader.pc = "finally"
    /\ reader' = RestoreOnExit(reader)
    /\ ReaderOnly

InitKey ==
    /\ InitStore
    /\ InitTuiOff
    /\ env = {}
    /\ \E bytes \in SeqsUpTo(Bytes, MaxBytes), eof \in BOOLEAN : reader = ReaderIdle(bytes, eof)

NextKey == KeyCall \/ KeySetRaw \/ KeyRead1 \/ KeyRead2 \/ KeyInterrupted \/ KeyRestore

SpecKey == InitKey /\ [][NextKey]_vars

(***************************************************************************)
(* Loading: a process starts on a bookmarks file of any content.           *)
(***************************************************************************)
MaxItems == 2

OneBookmark ==
    [id |-> 1, url |-> HTTPS \o URL_AB, description |-> <<>>, tags |-> <<TAG_PY>>,
     created |-> <<"2", "0", "2", "6">>, domain |-> URL_AB, has_content |-> FALSE]

ScalarDocs ==
    {JNull, JBool(TRUE), JBool(FALSE), JNum(0), JNum(5), JStr(<<>>), JStr(<<"a", "b", "c">>),
     JStr(KeyChars["bookmarks"]), JStr(KeyChars["bookmarks"] \o SPACE \o KeyChars["next_id"])}

ArrayDocs ==
    {JArr(items) : items \in SeqsUpTo({JStr(KeyChars["bookmarks"]), JStr(KeyChars["next_id"]), JNum(1)}, MaxItems)}

\* the values an object of the file may hold under a key
FieldDocs(key) ==
    CASE key = "bookmarks" -> {JArr(<<>>), JArr(<<DumpBookmark(OneBookmark)>>), JNum(5)}
      [] key = "next_id" -> {JNum(1), JNum(2), JStr(<<"2">>)}
      [] OTHER -> {JNull}

ObjectDocs ==
    LET all == FieldDocs("bookmarks") \cup FieldDocs("next_id") \cup FieldDocs("version")
    IN {JObj(fields) : fields \in
          UNION {{f \in [keys -> all] : \A k \in keys : f[k] \in FieldDocs(k)} :
                    keys \in SUBSET {"bookmarks", "next_id", "version"}}}

\* the contents the bookmarks file may have when a process starts
LoadFiles ==
    {MISSING, INVALID_JSON, INVALID_UTF8}
        \cup {JsonFile(doc) : doc \in ScalarDocs \cup ArrayDocs \cup ObjectDocs}

InitLoad ==
    /\ file \in LoadFiles
    /\ bookmarks = EmptyContainer
    /\ cache = <<>>
    /\ crashed = FALSE
    /\ last = Called("init", 0, <<>>, "none", <<>>, {})
    /\ ret = NoReturn
    /\ assigned = <<>>
    /\ synced = (file = MISSING)
    /\ lost = FALSE
    /\ gone = {}
    /\ faults = 0
    /\ InitTuiOff
    /\ env = {"load"}
    /\ reader = ReaderIdle(<<>>, FALSE)

NextLoad == Restart

SpecLoad == InitLoad /\ [][NextLoad]_vars

\* BookmarkManager() ran to its end, or raised, without an OSError of open() or read()
LoadedFile == last.op = "restart" /\ "read_failed" \notin last.io

ReturnedDefault == last.exc = "none" /\ ret.v = DumpContainer(EmptyContainer)

\* the file is not a well-formed container: not JSON, not UTF-8, or JSON that is no object
NotAContainer ==
    \/ file.kind \in {"invalid_json", "invalid_utf8"}
    \/ file.kind = "json" /\ file.doc.t # "object"

\* C4: load_bookmarks never raises because of the file's content: a missing file gives
\* {bookmarks: [], next_id: 1}, and a file that is not a well-formed container (invalid
\* JSON, invalid UTF-8, or JSON whose top-level value is not an object) gives
\* {bookmarks: [], next_id: 1} and a warning.
C4_LoadNeverRaises ==
    LoadedFile =>
        /\ last.exc = "none"
        /\ file.kind = "missing" => ReturnedDefault
        /\ NotAContainer => ReturnedDefault /\ last.out = <<"corrupt_warning">>

(***************************************************************************)
(* Properties of the store.                                                *)
(***************************************************************************)
MaxOf(S) == IF S = {} THEN 0 ELSE CHOOSE x \in S : \A y \in S : y <= x

\* each add took the largest id assigned before it, plus 1
IdsMonotonic ==
    \A i \in 1..Len(assigned) : assigned[i] = MaxOf({assigned[j] : j \in 1..(i - 1)}) + 1

\* next_id of a container is above the id of each of its bookmarks
NextIdAbove(c) == \A i \in 1..Len(c.bookmarks) : c.bookmarks[i].id < c.next_id

NextIdAboveStored ==
    /\ ~crashed => NextIdAbove(bookmarks)
    /\ file.kind = "json" => NextIdAbove(PyOfJson(file.doc))

RemovedMessages == {<<"removed">>, <<"save_error", "removed">>}

\* what C5 says of a step that is a call of remove_bookmark(id); unlinkMayFail excuses
\* the cache entry of id when its unlink failed
RemoveFrame(id, unlinkMayFail) ==
    IF find_bookmark(bookmarks, id) = <<>>
    THEN /\ bookmarks' = bookmarks
         /\ cache' = cache
         /\ file' = file
         /\ last'.exc = "none"
         /\ last'.out = <<"not_found">>
    ELSE /\ find_bookmark(bookmarks', id) = <<>>
         /\ bookmarks'.bookmarks = SelectSeq(bookmarks.bookmarks, LAMBDA b : b.id # id)
         /\ Len(bookmarks'.bookmarks) = Len(bookmarks.bookmarks) - 1
         /\ bookmarks'.next_id = bookmarks.next_id
         /\ (unlinkMayFail /\ "unlink_failed" \in last'.io) \/ id \notin DOMAIN cache'
         /\ DOMAIN cache' \subseteq DOMAIN cache
         /\ \A j \in DOMAIN cache \ {id} : j \in DOMAIN cache' /\ cache'[j] = cache[j]
         /\ last'.exc = "none"
         /\ last'.out \in RemovedMessages
         /\ show_bookmark_content(World(bookmarks', file', cache', <<>>), id, TRUE) = <<"not_found">>

\* a show of a removed id
ShowsNotFound(id) == show_bookmark_content(TheWorld, id, TRUE) = <<"not_found">>

\* C5 as stated: remove_bookmark(id) removes the bookmark with that id and its cache
\* entry and nothing else, a later show of id reports not-found, and a remove of an
\* unknown id changes nothing and prints not-found.
C5_RemoveCascades ==
    /\ [][last'.op = "remove" => RemoveFrame(last'.id, FALSE)]_vars
    /\ [](\A id \in gone : ShowsNotFound(id))

\* C5, amended: the cache entry of id is gone unless unlinking it failed, and a later
\* show of id reports not-found unless a process restarted on a file that a failed
\* save had left behind the memory.
C5_RemoveCascadesUnlessFailed ==
    /\ [][last'.op = "remove" => RemoveFrame(last'.id, TRUE)]_vars
    /\ [](~lost => \A id \in gone : ShowsNotFound(id))

\* C5: bookmark 1 and its cache file were removed while bookmark 2 and its cache file stay
C5_Witness ==
    /\ last.op = "remove"
    /\ last.id = 1
    /\ last.out = <<"removed">>
    /\ 1 \notin DOMAIN cache
    /\ 2 \in DOMAIN cache
    /\ find_bookmark(bookmarks, 2) # <<>>

\* the last operation wrote the bookmarks file and no file operation of it failed
WroteAll ==
    /\ last.op \in {"add", "remove", "refresh"}
    /\ last.io = {}
    /\ last.out # <<>>
    /\ last.out[Len(last.out)] \in {"added", "removed", "refreshed"}

\* the container a process would load from the file
Persisted == PyOfJson(load_bookmarks(file, TRUE).doc)

\* C6: after an add, remove or refresh whose file writes succeeded the file holds the
\* in-memory container; between operations file and memory differ only after a failed write.
C6_FileMatchesMemory ==
    ~crashed =>
        /\ WroteAll => file.kind = "json" /\ PyOfJson(file.doc) = bookmarks
        /\ synced => Persisted = bookmarks

\* C6: a refresh set has_content on a bookmark whose cache write had failed, and saved it
C6_Witness ==
    /\ WroteAll
    /\ last.op = "refresh"
    /\ faults > 0
    /\ file.kind = "json"
    /\ Len(bookmarks.bookmarks) > 0

\* C7: save_bookmarks then load_bookmarks, the write succeeding, gives back the container:
\* the same bookmarks in the same order with the same fields, and the same next_id.
C7_SaveLoadRoundTrip ==
    ~crashed =>
        LET r == load_bookmarks(save_bookmarks(bookmarks, file, "ok"), TRUE)
        IN /\ r.exc = "none"
           /\ ~r.warned
           /\ PyOfJson(r.doc) = bookmarks

\* C7: a process loaded a saved container of two bookmarks, one of them with tags
C7_Witness ==
    /\ last.op = "restart"
    /\ ~crashed
    /\ ~lost
    /\ Len(bookmarks.bookmarks) = 2
    /\ \E i \in 1..2 : bookmarks.bookmarks[i].tags # <<>>

(***************************************************************************)
(* Properties of search and list.                                          *)
(***************************************************************************)
\* the k-th smallest member of a set of positions
NthOf(idx, k) == CHOOSE i \in idx : Cardinality({j \in idx : j < i}) = k - 1

MetadataMatches(b, query) ==
    Contains(Lower(b.url \o SPACE \o b.description \o SPACE \o Join(b.tags, SPACE)), Lower(query))

\* the kind C8 gives a bookmark; unreadable holds the ids whose cache file cannot be read
KindOf(b, query, unreadable) ==
    IF MetadataMatches(b, query) THEN "metadata"
    ELSE IF /\ b.id \in DOMAIN cache
            /\ b.id \notin unreadable
            /\ Contains(Lower(cache[b.id]), Lower(query))
    THEN "content"
    ELSE "none"

\* the matches are the stored bookmarks of a kind, once each and in storage order
SearchReports(matches, query, unreadable) ==
    LET bs == bookmarks.bookmarks
        idx == {i \in 1..Len(bs) : KindOf(bs[i], query, unreadable) # "none"}
    IN /\ Len(matches) = Cardinality(idx)
       /\ \A k \in 1..Len(matches) :
            /\ matches[k].bookmark = bs[NthOf(idx, k)]
            /\ matches[k].kind = KindOf(bs[NthOf(idx, k)], query, unreadable)

\* C8 as stated: search_bookmarks(query) reports each stored bookmark at most once, in
\* storage order, as metadata exactly when the lower-cased query is in the lower-cased
\* 'url description tags', as content exactly when the metadata does not match and a
\* cache entry exists whose lower-cased text contains the query, and not otherwise.
C8_SearchKinds == last.op = "search" => SearchReports(ret.v, last.text, {})

\* C8, amended: as content exactly when the metadata does not match and a cache entry
\* exists that can be read and whose lower-cased text contains the query.
C8_SearchKindsOfReadable == last.op = "search" => SearchReports(ret.v, last.text, last.io)

\* C8: a search reported one bookmark for its cached text and then one for its metadata,
\* the query matching the url only when both are lower-cased
C8_Witness ==
    /\ last.op = "search"
    /\ last.text = <<"j">>
    /\ Len(ret.v) = 2
    /\ ret.v[1].kind = "content"
    /\ ret.v[2].kind = "metadata"
    /\ ret.v[1].bookmark.id < ret.v[2].bookmark.id

\* the bookmark has a tag equal to the filter when both are lower-cased
TagEquals(b, tag_filter) == \E t \in {b.tags[i] : i \in 1..Len(b.tags)} : Lower(t) = Lower(tag_filter)

\* C9: list_bookmarks with a non-empty tag filter shows exactly the stored bookmarks with
\* a tag equal to the filter when both are lower-cased, in stored order; when there is
\* none it prints 'no bookmarks found with tag' and returns; nothing is changed.
C9_ListByTag ==
    [][(last'.op = "list" /\ last'.text # <<>>) =>
          LET bs == bookmarks.bookmarks
              idx == {i \in 1..Len(bs) : TagEquals(bs[i], last'.text)}
          IN /\ Len(ret'.v) = Cardinality(idx)
             /\ \A k \in 1..Len(ret'.v) : ret'.v[k] = bs[NthOf(idx, k)]
             /\ (idx = {}) <=> (last'.out = <<"no_bookmarks_with_tag">>)
             /\ last'.exc = "none"
             /\ UNCHANGED <<bookmarks, file, cache>>]_vars

\* C9: the filter PY listed the one bookmark of two that is tagged Py
C9_Witness ==
    /\ last.op = "list"
    /\ last.text = <<"P", "Y">>
    /\ Len(bookmarks.bookmarks) = 2
    /\ Len(ret.v) = 1
    /\ TAG_PY \in {ret.v[1].tags[i] : i \in 1..Len(ret.v[1].tags)}

(***************************************************************************)
(* Properties of the TUI.  A state with pc = "tui" is a redraw.            *)
(***************************************************************************)
\* C2: at each redraw 0 <= selected_index <= len - 1 when the displayed list has
\* len >= 1 bookmarks, and selected_index = 0 when it is empty, whatever keys were
\* pressed: navigation on an empty list, add, delete and search keys included.
C2_SelectionInBounds ==
    pc = "tui" =>
        IF shown = <<>> THEN selected_index = 0
        ELSE 0 <= selected_index /\ selected_index <= Len(shown) - 1

\* the bookmarks matching a query, in storage order
Matching(query) ==
    LET matches == search_bookmarks(TheWorld, query, {})
    IN [i \in 1..Len(matches) |-> matches[i].bookmark]

\* C3: whenever search_query is not empty, in search mode and in normal mode alike, the
\* list displayed at a redraw is exactly the bookmarks matching search_query; after Enter
\* in search mode the loop is in normal mode, search_query is unchanged and the list is
\* still filtered by it.
C3_FilteredWhileQuery ==
    /\ (pc = "tui" /\ search_query # <<>>) => shown = Matching(search_query)
    /\ (pc = "tui" /\ tuistep.key = CR /\ tuistep.mode) =>
          /\ ~search_mode
          /\ search_query = tuistep.query
          /\ shown = Matching(search_query)

\* C10: from any normal-mode state, pressing /, then printable characters, then Escape
\* leaves the loop in normal mode with search_query empty and selected_index = 0.
C10_EscapeResetsSearch ==
    /\ (tuistep.key = <<"/">> /\ ~tuistep.mode) =>
          search_mode /\ search_query = <<>>
    /\ (tuistep.mode /\ tuistep.key \in {UP, <<"y">>}) =>
          search_mode /\ search_query = tuistep.query \o tuistep.key
    /\ (tuistep.key = ESC /\ tuistep.mode) =>
          /\ pc = "tui"
          /\ ~search_mode
          /\ search_query = <<>>
          /\ selected_index = 0

\* C10: Escape was pressed in search mode after y was typed twice, two bookmarks stored
C10_Witness ==
    /\ tuistep.key = ESC
    /\ tuistep.mode
    /\ tuistep.query = <<"y", "y">>
    /\ Len(shown) = 2
    /\ search_query = <<>>
    /\ selected_index = 0

\* a key of normal mode was handled on a displayed list of n >= 1 bookmarks with the
\* selection inside it, and the loop redrew
NavigatedInBounds ==
    /\ pc = "tui"
    /\ pc' = "tui"
    /\ ~search_mode
    /\ tuistep'.key \in NavigationKeys
    /\ Len(shown) >= 1
    /\ 0 <= selected_index
    /\ selected_index <= Len(shown) - 1

\* C11: in normal mode with n >= 1 bookmarks displayed and 0 <= selected_index <= n - 1,
\* j or Down sets selected_index to min(n - 1, selected_index + 1), k or Up to
\* max(0, selected_index - 1), g to 0 and G to n - 1; Down never moves past n - 1, Up at 0
\* stays at 0, and none of these keys changes search_mode, search_query or the store.
C11_NavigationClamps ==
    [][NavigatedInBounds =>
          LET n == Len(shown)
              key == tuistep'.key
          IN /\ key \in {<<"j">>, DOWN} =>
                   selected_index' = (IF selected_index + 1 <= n - 1 THEN selected_index + 1 ELSE n - 1)
             /\ key \in {<<"k">>, UP} =>
                   selected_index' = (IF selected_index - 1 >= 0 THEN selected_index - 1 ELSE 0)
             /\ key = <<"g">> => selected_index' = 0
             /\ key = <<"G">> => selected_index' = n - 1
             /\ 0 <= selected_index' /\ selected_index' <= n - 1
             /\ UNCHANGED <<search_mode, search_query, shown>>
             /\ UNCHANGED <<bookmarks, file, cache>>]_vars

\* C11: Down was pressed and the selection is on the last of two displayed bookmarks
C11_Witness ==
    /\ pc = "tui"
    /\ tuistep.key = DOWN
    /\ ~tuistep.mode
    /\ Len(shown) = 2
    /\ selected_index = 1

\* d was pressed on a non-empty displayed list and delete_bookmark_tui read a key
Confirmed == pc = "tui" /\ ~search_mode /\ shown # <<>> /\ tuistep'.key = <<"d">>

\* C12: in the delete confirmation opened by d on a non-empty list, the selected bookmark
\* and its cache entry are removed if and only if the key is the lowercase y; every other
\* key, uppercase Y included, leaves the store, the cache and the file unchanged.
C12_OnlyLowercaseYDeletes ==
    [][Confirmed =>
          LET id == PyItem(shown, selected_index).id
          IN IF tuistep'.answer = <<"y">>
             THEN find_bookmark(bookmarks', id) = <<>> /\ id \notin DOMAIN cache'
             ELSE UNCHANGED <<bookmarks, cache, file>>]_vars

\* C13: an interrupt delivered while the loop waits for a key, as the key \x03 or as
\* KeyboardInterrupt, ends the loop in whichever mode it is in, and q ends it in normal
\* mode; quitting does not change the store.
C13_InterruptQuits ==
    /\ [][(pc = "tui" /\ tuistep'.key \in {ETX, <<"KeyboardInterrupt">>}) =>
             (pc' = "done" /\ ~crashed' /\ UNCHANGED <<bookmarks, file, cache>>)]_vars
    /\ [][(pc = "tui" /\ ~search_mode /\ tuistep'.key = <<"q">>) =>
             (pc' = "done" /\ ~crashed' /\ UNCHANGED <<bookmarks, file, cache>>)]_vars

(***************************************************************************)
(* Properties of the key reader.                                           *)
(***************************************************************************)
\* get_key_termios returned a key
KeyReturned == reader.pc = "idle" /\ reader.returned # <<"none">>

BytesConsumed == Len(reader.start) - Len(reader.input)

\* C14: each call of the key reader consumes exactly one keypress: a lone escape byte is
\* returned as ESCAPE without waiting for or consuming later bytes, the three-byte arrow
\* sequences are returned as UP and DOWN, and every other byte is returned as itself.
C14_OneKeypressPerRead ==
    (KeyReturned /\ reader.start # <<>>) =>
        IF StartsWith(reader.start, ESC \o <<"[", "A">>)
        THEN reader.returned = UP /\ BytesConsumed = 3
        ELSE IF StartsWith(reader.start, ESC \o <<"[", "B">>)
        THEN reader.returned = DOWN /\ BytesConsumed = 3
        ELSE reader.returned = <<reader.start[1]>> /\ BytesConsumed = 1

\* C15: the terminal is in raw mode only inside get_key_termios, between tty.setraw and
\* the finally clause; on every exit path, a return for any key or an exception during
\* the read, the settings saved on entry are back, so outside the call the terminal is
\* not in raw mode.
C15_RawModeScoped ==
    /\ reader.term = "raw" => reader.pc \in {"read1", "read2", "finally"}
    /\ reader.pc = "idle" => reader.term = "cooked" /\ reader.term = reader.old

\* C15: a KeyboardInterrupt during the read after an escape byte left get_key_termios
\* with the terminal restored
C15_Witness ==
    /\ reader.pc = "idle"
    /\ reader.exc = "KeyboardInterrupt"
    /\ reader.key = ESC
    /\ reader.term = "cooked"

(***************************************************************************)
(* draw_tui: the number of characters of every line it prints.  A string   *)
(* is followed through the code by its length: len(a + b) is the sum,      *)
(* len(" " * n) is n or 0, len(s[:k]) is the smaller of len(s) and k.      *)
(***************************************************************************)
width == 80                \* width = 80
display_height == 12       \* display_height = 12
max_url_len == 40          \* max_url_len = 40
preview_lines == 3         \* the max_lines draw_tui hands to show_tui_preview
TitleLen == 26             \* len of the title
SearchLabelLen == 10       \* len of the label of the status in search mode, before the query
FilteredLabelLen == 12     \* len of the label of the status of a filtered list, before the query
ResultsLen == 9            \* len(" results)")
CountLabelLen == 14        \* len of the status of an unfiltered list around the count
LinksLabelLen == 7         \* len of the render_method of Links
LynxLabelLen == 6          \* len of the render_method of Lynx
Html2textLabelLen == 11    \* len of the render_method of html2text
BasicLabelLen == 7         \* len of the render_method without any of them
NoneFoundLen == 20         \* len of msg when a filter matches nothing
NoneYetLen == 18           \* len of msg when there is no bookmark
DateLabelLen == 2          \* len of the label before created_date
DateLen == 10              \* len of a date formatted "%Y-%m-%d"
UnknownLen == 7            \* len("Unknown")
TagsLabelLen == 7          \* len of the label before the tags
NoCacheLen == 29           \* len of the preview's message when there is no cache file
ReadErrorLen == 23         \* len of the preview's message when the cache file cannot be read
SearchHelpLen == 66        \* len of the help line of search mode
HelpLen1 == 61             \* len of the first help line
HelpLen2 == 57             \* len of the second help line

\* the capability flags HAS_LINKS, HAS_LYNX, HAS_REQUESTS, HAS_HTML2TEXT, HAS_BEAUTIFULSOUP
Capabilities == SUBSET {"links", "lynx", "requests", "html2text", "beautifulsoup"}

\* len(" " * n)
Spaces(n) == IF n > 0 THEN n ELSE 0

\* len(str(n)) for n >= 0
RECURSIVE Digits(_)
Digits(n) == IF n < 10 THEN 1 ELSE 1 + Digits(n \div 10)

\* the border lines
BorderLine == 1 + Spaces(width - 2) + 1

\* a line without text between the two side borders
BlankLine == 1 + Spaces(width - 2) + 1

\* the title and the message of an empty list: text centered by `padding`
CenteredLine(text) ==
    LET padding == (width - text - 2) \div 2
    IN 1 + Spaces(padding) + text + Spaces(width - padding - text - 2) + 1

\* "║ " + text + " " * (width - len(text) - 3) + "║": status, details and help lines
PaddedLine(text) == 2 + text + Spaces(width - text - 3) + 1

\* status_line
StatusLen(n, mode, query, caps) ==
    LET status == IF mode THEN SearchLabelLen + Len(query) + 1
                  ELSE IF query # <<>>
                  THEN FilteredLabelLen + Len(query) + 2 + Digits(n) + ResultsLen
                  ELSE CountLabelLen + Digits(n)
        render_method == IF "links" \in caps THEN LinksLabelLen
                         ELSE IF "lynx" \in caps THEN LynxLabelLen
                         ELSE IF "html2text" \in caps THEN Html2textLabelLen
                         ELSE BasicLabelLen
    IN status + 3 + render_method

\* one row of the list: the line of a bookmark, truncated, padded and framed
RowLine(bookmark, is_selected, caps) ==
    LET content_icon == IF bookmark.has_content THEN 1 ELSE 2
        display_url == IF Len(bookmark.url) <= max_url_len THEN Len(bookmark.url)
                       ELSE MinOf2(Len(bookmark.url), max_url_len - 3) + 3
        line == 1 + content_icon + 2 + MaxOf2(3, Digits(bookmark.id)) + 2 + display_url
        remaining == width - line - 4
        desc == Len(bookmark.description)
        desc_part == IF desc > remaining THEN MinOf2(desc, remaining - 3) + 3 ELSE desc
        line2 == IF desc > 0 /\ remaining > 10 THEN line + 3 + desc_part ELSE line
        padded == MinOf2(line2, width - 4) + Spaces(width - line2 - 4)
    IN IF is_selected THEN 1 + padded + 2 ELSE 2 + (padded - 1) + 2

\* a fault of ScrollWindow: the list never scrolls
ScrollWindowFromTop(n, sel) ==
    [start_idx |-> 0, end_idx |-> MinOf2(display_height, n)]

\* lines 803-804: the scroll offset; the rows drawn are start_idx..end_idx-1
ScrollWindow(n, sel) ==
    LET start_idx == MaxOf2(0, MinOf2(sel - display_height \div 2, n - display_height))
    IN [start_idx |-> start_idx, end_idx |-> MinOf2(start_idx + display_height, n)]

\* lines 806-810: bookmark_idx and is_selected of the rows that show a bookmark
DrawnRows(bs, sel) ==
    IF bs = <<>> THEN <<>>
    ELSE LET w == ScrollWindow(Len(bs), sel)
             rows == {i \in 0..(display_height - 1) : i < w.end_idx - w.start_idx}
         IN [i \in 1..Cardinality(rows) |->
                [bookmark_idx |-> w.start_idx + i - 1,
                 is_selected |-> w.start_idx + i - 1 = sel]]

\* the display_height rows of the list
ListLines(bs, sel, query, caps) ==
    IF bs = <<>>
    THEN [i \in 1..display_height |->
             IF i - 1 = display_height \div 2
             THEN CenteredLine(IF query # <<>> THEN NoneFoundLen ELSE NoneYetLen)
             ELSE BlankLine]
    ELSE LET start_idx == ScrollWindow(Len(bs), sel).start_idx
             end_idx == ScrollWindow(Len(bs), sel).end_idx
         IN [i \in 1..display_height |->
                IF i - 1 < end_idx - start_idx
                THEN RowLine(bs[start_idx + i], start_idx + i - 1 = sel, caps)
                ELSE BlankLine]

\* content.split('\n')
RECURSIVE SplitLines(_)
SplitLines(s) ==
    LET cuts == {i \in 1..Len(s) : s[i] = "\n"}
        first == CHOOSE i \in cuts : \A j \in cuts : i <= j
    IN IF cuts = {} THEN <<s>>
       ELSE <<SubSeq(s, 1, first - 1)>> \o SplitLines(SubSeq(s, first + 1, Len(s)))

\* line.strip() is not empty
HasText(line) == \E i \in 1..Len(line) : line[i] \notin {" ", "\n"}

\* the while loop of show_tui_preview: the pieces of one line, each max_width - 2 long at most
RECURSIVE WrapLine(_, _)
WrapLine(line, max_width) ==
    IF Len(line) > max_width - 2
    THEN <<SubSeq(line, 1, max_width - 2)>>
             \o WrapLine(SubSeq(line, max_width - 1, Len(line)), max_width)
    ELSE IF line # <<>> THEN <<line>> ELSE <<>>

\* the `lines` show_tui_preview collects from the cached content
RECURSIVE PreviewText(_, _, _)
PreviewText(rest, lines, max_width) ==
    IF rest = <<>> THEN lines
    ELSE LET line == Head(rest)
             lines2 == IF HasText(line) THEN lines \o WrapLine(line, max_width)
                       ELSE IF lines # <<>> /\ lines[Len(lines)] # <<>>
                       THEN Append(lines, <<>>)
                       ELSE lines
         IN PreviewText(Tail(rest), lines2, max_width)

\* BookmarkManager.show_tui_preview: the lines it prints
show_tui_preview(ch, bookmark_id, max_width, max_lines, readOk) ==
    LET message(text) == [i \in 1..max_lines |->
                             LET content == IF i - 1 = 1 THEN text ELSE 0
                             IN 2 + content + Spaces(max_width - content - 1) + 1]
        lines == PreviewText(SplitLines(ch[bookmark_id]), <<>>, max_width)
    IN IF ~CacheExists(ch, bookmark_id) THEN message(NoCacheLen)
       ELSE IF ~readOk THEN message(ReadErrorLen)
       ELSE [i \in 1..max_lines |->
                IF i - 1 < Len(lines)
                THEN LET line_content == MinOf2(Len(lines[i]), max_width - 2)
                     IN 2 + line_content + Spaces(max_width - line_content - 1) + 1
                ELSE 1 + Spaces(max_width) + 1]

\* the details line and the preview, or four blank lines when nothing is selected
PreviewLines(bs, sel, ch, dateOk, readOk) ==
    IF bs # <<>> /\ 0 <= sel /\ sel < Len(bs)
    THEN LET bookmark == PyItem(bs, sel)
             created_date == IF dateOk THEN DateLen ELSE UnknownLen
             details == DateLabelLen + created_date
                            + (IF bookmark.tags # <<>>
                               THEN TagsLabelLen + Len(Join(bookmark.tags, <<",", " ">>))
                               ELSE 0)
         IN <<PaddedLine(details)>>
                \o show_tui_preview(ch, bookmark.id, width - 4, preview_lines, readOk)
    ELSE [i \in 1..(preview_lines + 1) |-> BlankLine]

\* one help line, truncated when it is too long
HelpLine(help_text) ==
    PaddedLine(IF help_text > width - 4 THEN MinOf2(help_text, width - 7) + 3 ELSE help_text)

\* BookmarkManager.draw_tui: the length of each line it prints, top to bottom
draw_tui(bs, sel, mode, query, ch, caps, dateOk, readOk) ==
    <<BorderLine, CenteredLine(TitleLen), BorderLine,
      PaddedLine(StatusLen(Len(bs), mode, query, caps)), BorderLine>>
        \o ListLines(bs, sel, query, caps)
        \o <<BorderLine>>
        \o PreviewLines(bs, sel, ch, dateOk, readOk)
        \o <<BorderLine>>
        \o (IF mode THEN <<HelpLine(SearchHelpLen), BlankLine>>
            ELSE <<HelpLine(HelpLen1), HelpLine(HelpLen2)>>)
        \o <<BorderLine>>

\* the screens draw_tui can print in the state the loop is in
Screens ==
    {draw_tui(shown, selected_index, search_mode, search_query, cache, caps, dateOk, readOk) :
         caps \in Capabilities, dateOk \in BOOLEAN, readOk \in BOOLEAN}

\* C16: every line draw_tui prints is as long as the border lines, 80 characters
C16_LinesFillWidth ==
    pc = "tui" => \A screen \in Screens : \A i \in DOMAIN screen : screen[i] = width

(***************************************************************************)
(* The fetcher.  A text of a page is far longer than a sequence can be     *)
(* enumerated, so a text is kept as a sequence of runs [c, n]: n times the *)
(* character c.  A literal of the source is one run named after its words  *)
(* and as long as the literal.  The empty string is <<>>.                  *)
(***************************************************************************)
LinksBudget == 4000        \* fetch_with_links: len(content) > 4000
LynxBudget == 4000         \* fetch_with_lynx: len(content) > 4000
Html2textBudget == 4000    \* extract_text_with_html2text: len(text) > 4000
SimpleBudget == 3000       \* extract_text_simple: len(text) > 3000
OtherBudget == 2000        \* fetch_page_text: response.text[:2000]
LinksHeaderLen == 23       \* len of the header fetch_with_links puts before the content
LynxHeaderLen == 22        \* len of the header fetch_with_lynx puts before the content
Html2textHeaderLen == 22   \* len of the header extract_text_with_html2text puts before the text
SimpleHeaderLen == 19      \* len of the header extract_text_simple puts before the text

Run(c, n) == IF n > 0 THEN <<[c |-> c, n |-> n]>> ELSE <<>>

\* a string written out character by character
Str(chars) == [i \in 1..Len(chars) |-> [c |-> chars[i], n |-> 1]]

\* len(s)
RECURSIVE TextLen(_)
TextLen(s) == IF s = <<>> THEN 0 ELSE Head(s).n + TextLen(Tail(s))

\* s[i - 1]
RECURSIVE CharAt(_, _)
CharAt(s, i) == IF i <= Head(s).n THEN Head(s).c ELSE CharAt(Tail(s), i - Head(s).n)

\* s[:k]
RECURSIVE Take(_, _)
Take(s, k) ==
    IF s = <<>> \/ k <= 0 THEN <<>>
    ELSE IF Head(s).n >= k THEN Run(Head(s).c, k)
    ELSE <<Head(s)>> \o Take(Tail(s), k - Head(s).n)

\* s.endswith(t)
EndsWith(s, t) ==
    LET d == TextLen(s) - TextLen(t)
    IN d >= 0 /\ \A i \in 1..TextLen(t) : CharAt(s, d + i) = CharAt(t, i)

\* s.strip()
RECURSIVE Strip(_)
Strip(s) ==
    IF s = <<>> THEN s
    ELSE IF Head(s).c \in {" ", "\n"} THEN Strip(Tail(s))
    ELSE IF s[Len(s)].c \in {" ", "\n"} THEN Strip(SubSeq(s, 1, Len(s) - 1))
    ELSE s

\* "\n\n... (truncated)"
TRUNCATED ==
    Str(<<"\n", "\n", ".", ".", ".", " ", "(", "t", "r", "u", "n", "c", "a", "t", "e", "d", ")">>)

\* a fault of Truncate: the text is cut and the marker is left out
TruncateUnmarked(content, budget) == Take(content, budget)

\* if len(content) > budget: content = content[:budget] + "\n\n... (truncated)"
Truncate(content, budget) ==
    IF TextLen(content) > budget THEN Take(content, budget) \o TRUNCATED ELSE content

\* the stripped stdout of a subprocess that exited with 0, "" otherwise
Rendered(result) == IF result.rc = "zero" THEN Strip(result.stdout) ELSE <<>>

\* error_msg of a failed browser run
ErrorMsg(result) ==
    IF result.err # <<>> THEN Strip(result.err) ELSE Run("Unknown error", 13)

\* a fault of fetch_with_links: a failed run returns the empty string
fetch_with_links_silent(page) ==
    LET result == page.runs[1]
    IN IF Rendered(result) # <<>>
       THEN Run("Links Browser View:", LinksHeaderLen) \o Truncate(Rendered(result), LinksBudget)
       ELSE <<>>

\* BookmarkManager.fetch_with_links; page.runs[1] is what subprocess.run did
fetch_with_links(page) ==
    LET result == page.runs[1]
    IN CASE result.rc = "timeout" -> Run("Links timeout - page took too long to load", 44)
         [] result.rc = "not_found" -> Run("Links not found (this shouldn't happen)", 41)
         [] result.rc = "error" -> Run("Links error: ", 15) \o result.err
         [] Rendered(result) # <<>> ->
                Run("Links Browser View:", LinksHeaderLen) \o Truncate(Rendered(result), LinksBudget)
         [] OTHER -> Run("Links failed: ", 16) \o ErrorMsg(result)

\* the run fetch_with_lynx takes its result from: the second when the first exited non-zero
LynxResult(page) == IF page.runs[1].rc = "nonzero" THEN page.runs[2] ELSE page.runs[1]

\* BookmarkManager.fetch_with_lynx
fetch_with_lynx(page) ==
    LET result == LynxResult(page)
    IN CASE result.rc = "timeout" -> Run("Lynx timeout - page took too long to load", 43)
         [] result.rc = "not_found" -> Run("Lynx not found (this shouldn't happen)", 40)
         [] result.rc = "error" -> Run("Lynx error: ", 14) \o result.err
         [] Rendered(result) # <<>> ->
                Run("Lynx Browser View:", LynxHeaderLen) \o Truncate(Rendered(result), LynxBudget)
         [] OTHER -> Run("Lynx failed: ", 15) \o ErrorMsg(result)

\* BookmarkManager.extract_text_with_html2text; page.body is the cleaned output of h.handle,
\* page.handle tells whether html2text raised
extract_text_with_html2text(page) ==
    IF page.handle = "error" THEN Run("html2text error: ", 19) \o page.err
    ELSE Run("Text Browser View:", Html2textHeaderLen)
             \o Truncate(Strip(page.body), Html2textBudget)

\* BookmarkManager.extract_text_simple; page.body is the html without its tags
extract_text_simple(page) ==
    Run("Extracted Text:", SimpleHeaderLen) \o Truncate(Strip(page.body), SimpleBudget)

Fetched(strategy, extractor, text) ==
    [strategy |-> strategy, extractor |-> extractor, text |-> text]

\* a fault of fetch_page_text: when Links fails, Lynx is tried
fetch_page_text_fallback(caps, page) ==
    IF "links" \in caps /\ (Rendered(page.runs[1]) # <<>> \/ "lynx" \notin caps)
    THEN Fetched(<<"links">>, "none", fetch_with_links(page))
    ELSE IF "links" \in caps
    THEN Fetched(<<"links", "lynx">>, "none", fetch_with_lynx(page))
    ELSE IF "lynx" \in caps THEN Fetched(<<"lynx">>, "none", fetch_with_lynx(page))
    ELSE Fetched(<<"static">>, "none", Run("Install requests for web content", 192))

\* BookmarkManager.fetch_page_text: the strategies it called, the extractor it handed the
\* html to, and the text it returned; page.get is what requests.get did
fetch_page_text(caps, page) ==
    IF "links" \in caps THEN Fetched(<<"links">>, "none", fetch_with_links(page))
    ELSE IF "lynx" \in caps THEN Fetched(<<"lynx">>, "none", fetch_with_lynx(page))
    ELSE IF "requests" \notin caps
    THEN Fetched(<<"static">>, "none", Run("Install requests for web content", 192))
    ELSE CASE page.get = "request_exception" ->
                  Fetched(<<"requests">>, "none", Run("Failed to fetch: ", 19) \o page.err)
           [] page.get = "error" ->
                  Fetched(<<"requests">>, "none", Run("Error processing content: ", 28) \o page.err)
           [] page.get = "json" ->
                  Fetched(<<"requests">>, "none",
                          Run("JSON Content:", 17) \o Take(page.body, OtherBudget) \o Run(".", 3))
           [] page.get = "text" ->
                  Fetched(<<"requests">>, "none",
                          Run("Text Content:", 17) \o Take(page.body, OtherBudget) \o Run(".", 3))
           [] page.get = "binary" ->
                  Fetched(<<"requests">>, "none", Run("Binary content", 18))
           [] "html2text" \in caps ->
                  Fetched(<<"requests">>, "html2text", extract_text_with_html2text(page))
           [] "beautifulsoup" \in caps ->
                  \* self.extract_text_with_bs4 is defined nowhere: AttributeError, line 168
                  Fetched(<<"requests">>, "beautifulsoup",
                          Run("Error processing content: ", 28) \o Run("AttributeError", 1))
           [] OTHER -> Fetched(<<"requests">>, "simple", extract_text_simple(page))

\* check_dependencies: the current rendering method it prints
check_dependencies(caps) ==
    IF "links" \in caps THEN "links"
    ELSE IF "lynx" \in caps THEN "lynx"
    ELSE IF "html2text" \in caps THEN "html2text"
    ELSE IF "beautifulsoup" \in caps THEN "beautifulsoup"
    ELSE "simple"

\* the texts a page can hold
Texts ==
    {<<>>, Run(" ", 2), Run("x", 1), Run("x", SimpleBudget + 1), Run("x", LinksBudget),
     Run("x", LinksBudget + 1) \o Run("\n", 1)}

\* what subprocess.run can do: return with an exit status, or raise
Results ==
    {[rc |-> rc, stdout |-> <<>>, err |-> Run("e", 1)] : rc \in {"timeout", "not_found", "error"}}
        \cup {[rc |-> "zero", stdout |-> t, err |-> e] : t \in Texts, e \in {<<>>, Run("e", 1)}}
        \cup {[rc |-> "nonzero", stdout |-> <<>>, err |-> e] : e \in {<<>>, Run("e", 1)}}

\* what the network can do to one fetch: the browser runs, and the HTTP response
Pages ==
    {[runs |-> <<r1, r2>>, get |-> "html", body |-> <<>>, handle |-> "ok", err |-> <<>>] :
         r1 \in {r \in Results : r.rc = "nonzero"}, r2 \in Results}
        \cup {[runs |-> <<r, r>>, get |-> "html", body |-> <<>>, handle |-> "ok", err |-> <<>>] :
                  r \in Results}
        \cup {[runs |-> <<>>, get |-> g, body |-> t, handle |-> h, err |-> Run("e", 1)] :
                  g \in {"html", "json", "text", "binary"}, t \in Texts, h \in {"ok", "error"}}
        \cup {[runs |-> <<>>, get |-> g, body |-> <<>>, handle |-> "ok", err |-> Run("e", 1)] :
                  g \in {"request_exception", "error"}}

\* the pages of the browsers, and the pages of requests.get
PagesOf(caps) ==
    IF "links" \in caps \/ "lynx" \in caps THEN {p \in Pages : p.runs # <<>>}
    ELSE {p \in Pages : p.runs = <<>>}

\* the command of this process has not run yet: main runs one command and exits
Fresh == last.op = "init"

\* linkt add <url>: add_bookmark with the text fetch_page_text returns for the page
FetchAdd ==
    /\ ~crashed /\ Fresh
    /\ \E in \in AddInputs, now \in Times, page \in PagesOf(env),
          cacheOutcome \in Outcomes("cache", faults) :
         LET got == fetch_page_text(env, page)
         IN \E kept \in (IF cacheOutcome = "write_failed" THEN {0, Len(got.text) - 1} ELSE {0}),
               saveOutcome \in Outcomes("save", faults + Failed(cacheOutcome)) :
              LET w == add_bookmark(TheWorld, in.url, in.description, in.tags, now, got.text,
                                    cacheOutcome, kept, saveOutcome)
              IN /\ bookmarks' = w.bookmarks
                 /\ file' = w.file
                 /\ cache' = w.cache
                 /\ last' = Called("add", GenerateId(bookmarks), <<>>, "none", w.out,
                                   {cacheOutcome, saveOutcome} \ {"ok"})
                 /\ ret' = [t |-> "fetched",
                            v |-> [page |-> page, got |-> got, cacheOutcome |-> cacheOutcome]]
                 /\ assigned' = Append(assigned, GenerateId(bookmarks))
                 /\ synced' = SyncedAfter(saveOutcome)
                 /\ faults' = faults + Failed(cacheOutcome) + Failed(saveOutcome)
    /\ UNCHANGED <<crashed, lost, gone>>
    /\ TuiOff

\* linkt status
Status ==
    /\ ~crashed /\ Fresh
    /\ last' = Called("status", 0, <<>>, "none", <<"current_method">>, {})
    /\ ret' = [t |-> "status", v |-> check_dependencies(env)]
    /\ UNCHANGED <<bookmarks, file, cache, crashed, assigned, synced, lost, gone, faults>>
    /\ TuiOff

\* a process with any set of capabilities, in which the cache write or the save can fail
InitFetch ==
    /\ InitStore /\ InitTuiOff
    /\ env \in {caps \cup {"cache", "save"} : caps \in Capabilities}
    /\ reader = ReaderIdle(<<>>, FALSE)

NextFetch == FetchAdd \/ Status

SpecFetch == InitFetch /\ [][NextFetch]_vars

(***************************************************************************)
(* Properties of the fetcher.                                              *)
(***************************************************************************)
\* the text the strategy that ran extracted from the page, with the budget and the header
\* of that strategy; no text when no truncating strategy produced one
Extraction(got, page) ==
    CASE got.strategy = <<"links">> ->
             [text |-> Rendered(page.runs[1]), budget |-> LinksBudget, header |-> LinksHeaderLen]
      [] got.strategy = <<"lynx">> ->
             [text |-> Rendered(LynxResult(page)), budget |-> LynxBudget, header |-> LynxHeaderLen]
      [] got.extractor = "html2text" /\ page.handle = "ok" ->
             [text |-> Strip(page.body), budget |-> Html2textBudget, header |-> Html2textHeaderLen]
      [] got.extractor = "simple" ->
             [text |-> Strip(page.body), budget |-> SimpleBudget, header |-> SimpleHeaderLen]
      [] OTHER -> [text |-> <<>>, budget |-> 0, header |-> 0]

\* the last command fetched a page whose extracted text is longer than the budget
OverBudget ==
    /\ ret.t = "fetched"
    /\ TextLen(Extraction(ret.v.got, ret.v.page).text) > Extraction(ret.v.got, ret.v.page).budget

\* the text the fetcher returned is what the cache holds for the new id
CachedAsReturned == CacheExists(cache, last.id) /\ cache[last.id] = ret.v.got.text

\* C17 as stated: a text over the budget is returned and cached ending with the marker, and
\* is at most budget + len(marker) long
C17_TruncatedWithinBudget ==
    OverBudget =>
        /\ EndsWith(ret.v.got.text, TRUNCATED)
        /\ TextLen(ret.v.got.text)
               <= Extraction(ret.v.got, ret.v.page).budget + TextLen(TRUNCATED)
        /\ ret.v.cacheOutcome = "ok" => CachedAsReturned

\* C17 amended: a text over the budget is returned and cached ending with the marker, and
\* is at most len(header) + budget + len(marker) long: the budget bounds the text after the
\* header the strategy puts before it
C17_TruncatedAfterHeader ==
    OverBudget =>
        /\ EndsWith(ret.v.got.text, TRUNCATED)
        /\ TextLen(ret.v.got.text)
               <= Extraction(ret.v.got, ret.v.page).header
                      + Extraction(ret.v.got, ret.v.page).budget + TextLen(TRUNCATED)
        /\ ret.v.cacheOutcome = "ok" => CachedAsReturned

C17_Witness ==
    /\ OverBudget
    /\ ret.v.got.extractor = "simple"
    /\ ret.v.cacheOutcome = "ok"
    /\ TextLen(cache[last.id]) = SimpleHeaderLen + SimpleBudget + TextLen(TRUNCATED)

\* C18: whatever the fetch did, add_bookmark returns and appends the bookmark; when the
\* cache write succeeds the cache holds the text the fetcher returned and has_content is
\* true, and has_content is false only when the cache write failed
C18_EveryFetchOutcomeCached ==
    ret.t = "fetched" =>
        /\ last.exc = "none" /\ ~crashed
        /\ Len(bookmarks.bookmarks) = 1
        /\ bookmarks.bookmarks[1].id = last.id
        /\ bookmarks.bookmarks[1].has_content = (ret.v.cacheOutcome = "ok")
        /\ ret.v.cacheOutcome = "ok" => CachedAsReturned

C18_Witness ==
    /\ ret.t = "fetched"
    /\ ret.v.got.strategy = <<"links">>
    /\ ret.v.page.runs[1].rc = "timeout"
    /\ ret.v.cacheOutcome = "ok"
    /\ bookmarks.bookmarks[1].has_content
    /\ cache[last.id] = fetch_with_links(ret.v.page)

\* the strategy the capability flags select
Chosen(caps) ==
    IF "links" \in caps THEN "links"
    ELSE IF "lynx" \in caps THEN "lynx"
    ELSE IF "requests" \in caps THEN "requests"
    ELSE "static"

\* C19: a fetch calls one strategy, the first the flags offer of Links, Lynx, the HTTP GET
\* and the static message, and returns its text, also when the strategy failed
C19_OneStrategyByFlags ==
    ret.t = "fetched" =>
        /\ ret.v.got.strategy = <<Chosen(env)>>
        /\ ret.v.got.text # <<>>
        /\ Chosen(env) = "links" => ret.v.got.text = fetch_with_links(ret.v.page)
        /\ Chosen(env) = "lynx" => ret.v.got.text = fetch_with_lynx(ret.v.page)

C19_Witness ==
    /\ ret.t = "fetched"
    /\ {"links", "lynx", "requests"} \subseteq env
    /\ ret.v.page.runs[1].rc = "nonzero"
    /\ ret.v.got.strategy = <<"links">>

\* what a fetch used to turn the html page into text
Renderer(got) == IF got.extractor # "none" THEN got.extractor ELSE got.strategy[1]

\* C20: the method status reports as current is the one a fetch of an html page uses
\* under the same flags
C20_StatusNamesFetchStrategy ==
    ret.t = "status" =>
        \A page \in PagesOf(env) :
            page.get = "html" => Renderer(fetch_page_text(env, page)) = ret.v

(***************************************************************************)
(* Failures of file operations.                                            *)
(***************************************************************************)
\* C21: a file operation that fails raises out of no operation: after a load, save or
\* cache write that failed, the operation has returned and the process goes on
C21_FileFailuresHandled ==
    last.io # {} => last.exc = "none" /\ ~crashed

(***************************************************************************)
(* The search mode of run_tui on a store that holds bookmarks already: the *)
(* loop starts on a stored list, and the keys are / and the keys of search *)
(* mode, the command characters of normal mode among them.                 *)
(***************************************************************************)
\* the stores run_tui can start on: nothing stored, or one bookmark added with its cache
StartWorlds ==
    {World(EmptyContainer, MISSING, <<>>, <<>>)}
        \cup {add_bookmark(World(EmptyContainer, MISSING, <<>>, <<>>), in.url, in.description,
                           in.tags, now, content, "ok", 0, "ok") :
                  in \in AddInputs, now \in Times, content \in {<<"j">>}}

InitSearch ==
    /\ \E w \in StartWorlds :
         /\ bookmarks = w.bookmarks
         /\ file = w.file
         /\ cache = w.cache
         /\ assigned = [i \in 1..Len(w.bookmarks.bookmarks) |-> w.bookmarks.bookmarks[i].id]
         /\ shown = w.bookmarks.bookmarks
    /\ crashed = FALSE
    /\ last = Called("init", 0, <<>>, "none", <<>>, {})
    /\ ret = NoReturn
    /\ synced = TRUE
    /\ lost = FALSE
    /\ gone = {}
    /\ faults = 0
    /\ pc = "tui"
    /\ selected_index = 0
    /\ search_mode = FALSE
    /\ search_query = <<>>
    /\ tuistep = NoStep
    /\ env = {}
    /\ reader = ReaderIdle(<<>>, FALSE)

NextSearch == KeySlash \/ KeySearch \/ KeyCommandInSearch

SpecSearch == InitSearch /\ [][NextSearch]_vars

\* C22: in search mode no key is a command: no key changes the container, next_id, the
\* cache or the file, and a, d, r, c, q, j, k, g, G, / and ? are appended to search_query
\* with search_mode still true
C22_NoCommandInSearchMode ==
    [][(pc = "tui" /\ search_mode) =>
          /\ UNCHANGED <<bookmarks, file, cache>>
          /\ pc' = "tui"
          /\ tuistep'.key \in CommandChars =>
                search_mode' /\ search_query' = search_query \o tuistep'.key]_vars

\* d was pressed in search mode on a stored bookmark: it is in the query, the bookmark stays
C22_Witness ==
    /\ pc = "tui"
    /\ search_mode
    /\ tuistep.mode
    /\ tuistep.key = <<"d">>
    /\ search_query = <<"d">>
    /\ bookmarks.bookmarks # <<>>
    /\ DOMAIN cache # {}

\* C23: in search mode one key changes search_query by one character at most: only a key
\* that is one printable character extends it, by that character, and Up, Down, the
\* interrupt key and the empty key leave search_query and selected_index as they are
C23_OneCharacterPerKey ==
    [][(pc = "tui" /\ search_mode /\ pc' = "tui") =>
          /\ Len(search_query') <= Len(search_query) + 1
          /\ Len(search_query') > Len(search_query) =>
                /\ Len(tuistep'.key) = 1
                /\ search_query' = search_query \o tuistep'.key
          /\ tuistep'.key \in {UP, DOWN, ETX, EOF_KEY} =>
                UNCHANGED <<search_query, selected_index>>]_vars

(***************************************************************************)
(* The cache and the has_content flags.                                    *)
(***************************************************************************)
\* the ids of the stored bookmarks whose has_content is true
IdsWithContent ==
    {bookmarks.bookmarks[i].id :
         i \in {j \in 1..Len(bookmarks.bookmarks) : bookmarks.bookmarks[j].has_content}}

\* C24: while no file operation has failed, the cache holds a file for id i exactly when
\* a stored bookmark has id i and has_content = true
C24_CacheMatchesHasContent ==
    (faults = 0 /\ ~crashed) => DOMAIN cache = IdsWithContent

\* two bookmarks were added and the first removed without any failure: one cache file is left
C24_Witness ==
    /\ faults = 0
    /\ ~crashed
    /\ gone = {1}
    /\ last.op = "refresh"
    /\ last.id = 2
    /\ IdsWithContent = {2}
    /\ DOMAIN cache = {2}

(***************************************************************************)
(* The scrolling of the list: draw_tui on lists longer than the window.    *)
(***************************************************************************)
MaxRows == 15       \* bookmarks in the list handed to draw_tui

\* draw_tui draws the list the loop holds
DrawList ==
    /\ pc = "tui"
    /\ ret = NoReturn
    /\ ret' = [t |-> "drawn",
               v |-> [window |-> ScrollWindow(Len(shown), selected_index),
                      rows |-> DrawnRows(shown, selected_index)]]
    /\ last' = Called("draw_tui", 0, <<>>, "none", <<>>, {})
    /\ UNCHANGED <<bookmarks, file, cache, crashed, assigned, synced, lost, gone, faults>>
    /\ UNCHANGED <<pc, selected_index, search_mode, search_query, shown, tuistep>>
    /\ UNCHANGED <<env, reader>>

\* a list of up to MaxRows bookmarks and any selection the loop can hold for it
InitDraw ==
    /\ InitStore
    /\ pc = "tui"
    /\ \E n \in 0..MaxRows :
         /\ shown = [i \in 1..n |->
                        [id |-> i, url |-> HTTPS \o URL_AB, description |-> <<>>, tags |-> <<>>,
                         created |-> <<"2", "0", "2", "6">>, domain |-> URL_AB,
                         has_content |-> FALSE]]
         /\ selected_index \in -1..MaxOf2(0, n - 1)
    /\ search_mode = FALSE
    /\ search_query = <<>>
    /\ tuistep = NoStep
    /\ env = {}
    /\ reader = ReaderIdle(<<>>, FALSE)

NextDraw == DrawList

SpecDraw == InitDraw /\ [][NextDraw]_vars

\* C25: for a displayed list of n >= 1 bookmarks and 0 <= selected_index < n, the rows
\* drawn are start..end-1 with 0 <= start, end <= n, end - start = min(n, 12) and
\* start <= selected_index < end, and exactly one drawn row is highlighted, the selected one
C25_SelectionInWindow ==
    (ret.t = "drawn" /\ shown # <<>> /\ 0 <= selected_index /\ selected_index < Len(shown)) =>
        LET n == Len(shown)
            start == ret.v.window.start_idx
            end == ret.v.window.end_idx
            rows == ret.v.rows
        IN /\ 0 <= start /\ end <= n
           /\ end - start = (IF n < 12 THEN n ELSE 12)
           /\ start <= selected_index /\ selected_index < end
           /\ Len(rows) = end - start
           /\ \A i \in 1..Len(rows) : rows[i].bookmark_idx = start + i - 1
           /\ Cardinality({i \in 1..Len(rows) : rows[i].is_selected}) = 1
           /\ \A i \in 1..Len(rows) : rows[i].is_selected <=> rows[i].bookmark_idx = selected_index

\* the last of fifteen bookmarks is selected: the window is rows 3..14, the last highlighted
C25_Witness ==
    /\ ret.t = "drawn"
    /\ Len(shown) = 15
    /\ selected_index = 14
    /\ ret.v.window = [start_idx |-> 3, end_idx |-> 15]
    /\ ret.v.rows[12].is_selected

\* the last command fetched an html page over HTTP, with no text browser present, and
\* html2text, where it ran, did not raise
FetchedHtml ==
    /\ ret.t = "fetched"
    /\ "links" \notin env /\ "lynx" \notin env /\ "requests" \in env
    /\ ret.v.page.get = "html"
    /\ ret.v.page.handle = "ok"

\* C26: without a text browser and with requests, an html response is converted by
\* html2text when it is present, otherwise by the BeautifulSoup extractor when that is
\* present, otherwise by the regex stripper, and the text returned is the extracted text
\* behind that converter's prefix, never an error message
C26_HtmlConvertedByPriority ==
    FetchedHtml =>
        /\ ret.v.got.extractor = (IF "html2text" \in env THEN "html2text"
                                  ELSE IF "beautifulsoup" \in env THEN "beautifulsoup"
                                  ELSE "simple")
        /\ Head(ret.v.got.text).c \notin {"Error processing content: ", "html2text error: "}
        /\ ret.v.got.extractor = "html2text" =>
              ret.v.got.text = Run("Text Browser View:", Html2textHeaderLen)
                                   \o Truncate(Strip(ret.v.page.body), Html2textBudget)
        /\ ret.v.got.extractor = "simple" =>
              ret.v.got.text = Run("Extracted Text:", SimpleHeaderLen)
                                   \o Truncate(Strip(ret.v.page.body), SimpleBudget)

(***************************************************************************)
(* The filter of the TUI and the search command.                           *)
(***************************************************************************)
\* what get_filtered_bookmarks returns for the query, the store and the unreadable cache
\* files of the search that just ran
Filtered == get_filtered_bookmarks(TheWorld, last.text, last.io)

====
